---------------------------- MODULE Spec2Model ----------------------------
(***************************************************************************)
(* A model of organize_photos.py: the timestamp resolver                   *)
(* (get_valid_timestamp / get_file_date), the sidecar-to-media matcher     *)
(* (find_media_file), the path planner (get_target_path) and the two-pass  *)
(* driver (organize_media).                                                *)
(*                                                                         *)
(* Strings are sequences of one-character strings, so that lower(),        *)
(* startswith(), splitext() and friends are computed, not assumed.         *)
(* The filesystem is a POSIX one: names are case-sensitive and a rename    *)
(* over an existing file replaces it.                                      *)
(*                                                                         *)
(* Line 15 of the source holds a stray comma inside the PHOTO_EXTENSIONS   *)
(* literal; the model reads the set as its elements.                       *)
(***************************************************************************)
EXTENDS Integers, Sequences, FiniteSets, TLC

VARIABLES
    fs,                     \* path -> file record: the files that exist
    dirs,                   \* the directories that exist
    tz,                     \* the local timezone's offset from UTC, seconds
    stats,                  \* organize_media's stats dict
    processed_media_files,  \* organize_media's set of claimed paths
    phase,                  \* "pass1", "pass2", "done": where organize_media is
    stack,                  \* os.walk: the directories still to be yielded
    root,                   \* os.walk: the directory being iterated
    files,                  \* the names of root's listing not yet iterated
    run,                    \* how many times organize_media was started
    faults,                 \* I/O failures the environment has injected
    prev,                   \* ghost: errors and files when the run started
    last,                   \* ghost: what the driver did with the last file
    history,                \* ghost: the paths claimed and attempted this run
    call                    \* ghost: the last call of a resolver

vars == <<fs, dirs, tz, stats, processed_media_files, phase, stack, root,
          files, run, faults, prev, last, history, call>>

-----------------------------------------------------------------------------
(* Bounds of the model *)

MaxFiles == 3
MaxFaults == 1
MaxRuns == 2
MaxTags == 2

-----------------------------------------------------------------------------
(* Characters and strings *)

LowerLetters ==
    <<"a","b","c","d","e","f","g","h","i","j","k","l","m",
      "n","o","p","q","r","s","t","u","v","w","x","y","z">>

UpperLetters ==
    <<"A","B","C","D","E","F","G","H","I","J","K","L","M",
      "N","O","P","Q","R","S","T","U","V","W","X","Y","Z">>

DigitChars == <<"0","1","2","3","4","5","6","7","8","9">>

ToLower ==
    [c \in {UpperLetters[i] : i \in 1..26} |->
        LowerLetters[CHOOSE i \in 1..26 : UpperLetters[i] = c]]

ToUpper ==
    [c \in {LowerLetters[i] : i \in 1..26} |->
        UpperLetters[CHOOSE i \in 1..26 : LowerLetters[i] = c]]

LowerChar(c) == IF c \in DOMAIN ToLower THEN ToLower[c] ELSE c

UpperChar(c) == IF c \in DOMAIN ToUpper THEN ToUpper[c] ELSE c

\* str.lower()
Lower(s) == [i \in 1..Len(s) |-> LowerChar(s[i])]

\* str.upper()
Upper(s) == [i \in 1..Len(s) |-> UpperChar(s[i])]

\* str.startswith(prefix)
StartsWith(s, prefix) ==
    /\ Len(prefix) <= Len(s)
    /\ SubSeq(s, 1, Len(prefix)) = prefix

\* str.endswith(suffix)
EndsWith(s, suffix) ==
    /\ Len(suffix) <= Len(s)
    /\ SubSeq(s, Len(s) - Len(suffix) + 1, Len(s)) = suffix

\* str.rfind(c) + 1: the last position of c in s, 0 when there is none
RFind(s, c) ==
    IF \E i \in 1..Len(s) : s[i] = c
    THEN CHOOSE i \in 1..Len(s) : s[i] = c /\ \A j \in (i+1)..Len(s) : s[j] # c
    ELSE 0

\* str(n).zfill(width) for n >= 0
RECURSIVE Decimal(_)
Decimal(n) ==
    IF n < 10 THEN <<DigitChars[n + 1]>>
    ELSE Decimal(n \div 10) \o <<DigitChars[(n % 10) + 1]>>

ZFill(s, width) ==
    IF Len(s) >= width THEN s
    ELSE [i \in 1..(width - Len(s)) |-> "0"] \o s

\* An optional value is a set of at most one element
None == {}

Some(v) == {v}

The(o) == CHOOSE v \in o : TRUE

\* int(s) for a string: None stands for the ValueError

IsDigit(c) == \E i \in 1..10 : DigitChars[i] = c

DigitValue(c) == (CHOOSE i \in 1..10 : DigitChars[i] = c) - 1

RECURSIVE DigitsValue(_)
DigitsValue(s) ==
    IF Len(s) = 0 THEN 0
    ELSE 10 * DigitsValue(SubSeq(s, 1, Len(s) - 1)) + DigitValue(s[Len(s)])

ParseInt(s) ==
    LET body == IF Len(s) > 0 /\ s[1] \in {"-", "+"} THEN Tail(s) ELSE s
    IN  IF Len(body) = 0 \/ \E i \in 1..Len(body) : ~IsDigit(body[i])
        THEN None
        ELSE IF Len(s) > 0 /\ s[1] = "-" THEN Some(0 - DigitsValue(body))
             ELSE Some(DigitsValue(body))

-----------------------------------------------------------------------------
(* os.path *)

\* os.path.splitext(p): the extension starts at the last dot of the last
\* component, unless that component has only dots before it
SplitExt(p) ==
    LET sep == RFind(p, "/")
        dot == RFind(p, ".")
    IN  IF dot > sep /\ \E i \in (sep + 1)..(dot - 1) : p[i] # "."
        THEN <<SubSeq(p, 1, dot - 1), SubSeq(p, dot, Len(p))>>
        ELSE <<p, <<>>>>

\* os.path.basename(p)
BaseName(p) == SubSeq(p, RFind(p, "/") + 1, Len(p))

\* os.path.dirname(p): the head, without its trailing slashes unless it is
\* only slashes
RECURSIVE RStripSlash(_)
RStripSlash(s) ==
    IF Len(s) > 0 /\ s[Len(s)] = "/" THEN RStripSlash(SubSeq(s, 1, Len(s) - 1))
    ELSE s

DirName(p) ==
    LET head == SubSeq(p, 1, RFind(p, "/"))
    IN  IF head # <<>> /\ \E i \in 1..Len(head) : head[i] # "/"
        THEN RStripSlash(head)
        ELSE head

\* os.path.join(a, b)
Join(a, b) ==
    IF Len(b) > 0 /\ b[1] = "/" THEN b
    ELSE IF a = <<>> \/ a[Len(a)] = "/" THEN a \o b
    ELSE a \o <<"/">> \o b

\* os.path.normpath(p), for paths without "." and ".." components, as every
\* path the walk builds from an abspath is: repeated and trailing slashes go
RECURSIVE CollapseSlashes(_)
CollapseSlashes(p) ==
    IF Len(p) < 2 THEN p
    ELSE IF p[1] = "/" /\ p[2] = "/" THEN CollapseSlashes(Tail(p))
    ELSE <<p[1]>> \o CollapseSlashes(Tail(p))

NormPath(p) ==
    LET c == CollapseSlashes(p)
    IN  IF Len(c) > 1 /\ c[Len(c)] = "/" THEN SubSeq(c, 1, Len(c) - 1) ELSE c

-----------------------------------------------------------------------------
(* datetime.fromtimestamp(t): the local civil date of an epoch second *)

\* the proleptic Gregorian date of a day number counted from 1970-01-01
CivilFromDays(days) ==
    LET z == days + 719468
        era == z \div 146097
        doe == z - era * 146097
        yoe == (doe - doe \div 1460 + doe \div 36524 - doe \div 146096) \div 365
        doy == doe - (365 * yoe + yoe \div 4 - yoe \div 100)
        mp == (5 * doy + 2) \div 153
        d == doy - (153 * mp + 2) \div 5 + 1
        m == IF mp < 10 THEN mp + 3 ELSE mp - 9
        y == yoe + era * 400 + (IF m <= 2 THEN 1 ELSE 0)
    IN  [year |-> y, month |-> m, day |-> d]

FromTimestamp(timestamp, offset) ==
    CivilFromDays((timestamp + offset) \div 86400)

-----------------------------------------------------------------------------
(* Module constants *)

PHOTO_EXTENSIONS ==
    { <<".","j","p","g">>, <<".","j","p","e","g">>, <<".","p","n","g">>,
      <<".","g","i","f">>, <<".","b","m","p">>, <<".","t","i","f","f">>,
      <<".","w","e","b","p">>, <<".","r","a","w">>, <<".","c","r","2">>,
      <<".","n","e","f">>, <<".","a","r","w">>, <<".","d","n","g">>,
      <<".","o","r","f">>, <<".","r","w","2">>, <<".","p","e","f">> }

VIDEO_EXTENSIONS ==
    { <<".","m","p","4">>, <<".","m","o","v">>, <<".","a","v","i">>,
      <<".","w","m","v">>, <<".","f","l","v">>, <<".","w","e","b","m">>,
      <<".","m","k","v">>, <<".","m","4","v">>, <<".","3","g","p">>,
      <<".","m","p","g">>, <<".","m","p","e","g">> }

ALL_MEDIA_EXTENSIONS == PHOTO_EXTENSIONS \cup VIDEO_EXTENSIONS

MIN_VALID_TIMESTAMP == 946684800

-----------------------------------------------------------------------------
(* Files.  A file record holds what the program can read from the file:     *)
(*   embedded  the dates of its embedded metadata in the extractor's        *)
(*             priority order, each None when the tag or field is absent    *)
(*             or does not parse, else Some(epoch seconds)                  *)
(*   ctime     os.path.getctime: None when the call raises                  *)
(*   mtime     os.path.getmtime                                             *)
(*   doc       what json.load gives: valid is FALSE when the file is no     *)
(*             JSON object; title, photoTaken and creation are optional     *)
(*             strings (metadata['title'],                                  *)
(*             metadata['photoTakenTime']['timestamp'],                     *)
(*             metadata['creationTime']['timestamp'])                       *)

NoDoc == [valid |-> FALSE, title |-> None, photoTaken |-> None, creation |-> None]

Exists(path) == path \in DOMAIN fs

\* the first embedded date above the threshold, None when there is none
FirstValidDate(dates) ==
    LET ok == {i \in 1..Len(dates) :
                  dates[i] # None /\ The(dates[i]) > MIN_VALID_TIMESTAMP}
    IN  IF ok = {} THEN None
        ELSE dates[CHOOSE i \in ok : \A j \in ok : i <= j]

get_exif_date(file_path) ==
    IF ~Exists(file_path) THEN None
    ELSE FirstValidDate(fs[file_path].embedded)

get_video_creation_time(file_path) ==
    IF ~Exists(file_path) THEN None
    ELSE FirstValidDate(fs[file_path].embedded)

\* a resolver's result: the pair it returns, or the exception it lets out
Returned(timestamp, source) ==
    [raised |-> FALSE, timestamp |-> timestamp, source |-> source]

Raised == [raised |-> TRUE, timestamp |-> 0, source |-> "FileNotFoundError"]

JsonField(field) == IF field = None THEN None ELSE ParseInt(The(field))

\* get_json_date with the threshold itself accepted (>= for >)
get_json_date_Mutant(metadata) ==
    LET photo_taken_timestamp == JsonField(metadata.photoTaken)
        creation_timestamp == JsonField(metadata.creation)
    IN  IF photo_taken_timestamp # None
           /\ The(photo_taken_timestamp) >= MIN_VALID_TIMESTAMP
        THEN <<photo_taken_timestamp, "JSON photoTakenTime">>
        ELSE IF creation_timestamp # None
                /\ The(creation_timestamp) >= MIN_VALID_TIMESTAMP
        THEN <<creation_timestamp, "JSON creationTime">>
        ELSE <<None, "None">>

get_json_date(metadata) ==
    LET photo_taken_timestamp == JsonField(metadata.photoTaken)
        creation_timestamp == JsonField(metadata.creation)
    IN  IF photo_taken_timestamp # None
           /\ The(photo_taken_timestamp) > MIN_VALID_TIMESTAMP
        THEN <<photo_taken_timestamp, "JSON photoTakenTime">>
        ELSE IF creation_timestamp # None
                /\ The(creation_timestamp) > MIN_VALID_TIMESTAMP
        THEN <<creation_timestamp, "JSON creationTime">>
        ELSE <<None, "None">>

\* lines 142-151 and 174-183: the filesystem's dates
SystemDate(file_path) ==
    IF ~Exists(file_path) THEN Raised
    ELSE IF fs[file_path].ctime # None
            /\ The(fs[file_path].ctime) > MIN_VALID_TIMESTAMP
    THEN Returned(The(fs[file_path].ctime), "File creation time")
    ELSE Returned(fs[file_path].mtime, "File modification time")

\* lines 129-140 and 157-167: the embedded metadata of the file's kind
MediaDate(file_path) ==
    LET file_ext == Lower(SplitExt(file_path)[2])
    IN  IF file_ext \in PHOTO_EXTENSIONS
        THEN <<get_exif_date(file_path), "EXIF">>
        ELSE IF file_ext \in VIDEO_EXTENSIONS
        THEN <<get_video_creation_time(file_path), "Video metadata">>
        ELSE <<None, "None">>

\* get_file_date without the creation-time step
get_file_date_Mutant(file_path) ==
    LET media == MediaDate(file_path)
    IN  IF media[1] # None THEN Returned(The(media[1]), media[2])
        ELSE IF ~Exists(file_path) THEN Raised
        ELSE Returned(fs[file_path].mtime, "File modification time")

get_file_date(file_path) ==
    LET media == MediaDate(file_path)
    IN  IF media[1] # None THEN Returned(The(media[1]), media[2])
        ELSE SystemDate(file_path)

\* get_valid_timestamp with the sidecar consulted before the media file
get_valid_timestamp_Mutant(metadata, media_path) ==
    LET media == MediaDate(media_path)
        json == get_json_date(metadata)
    IN  IF json[1] # None THEN Returned(The(json[1]), json[2])
        ELSE IF media[1] # None THEN Returned(The(media[1]), media[2])
        ELSE SystemDate(media_path)

get_valid_timestamp(metadata, media_path) ==
    LET media == MediaDate(media_path)
        json == get_json_date(metadata)
    IN  IF media[1] # None THEN Returned(The(media[1]), media[2])
        ELSE IF json[1] # None THEN Returned(The(json[1]), json[2])
        ELSE SystemDate(media_path)

-----------------------------------------------------------------------------
(* find_media_file and get_target_path *)

DotJson == <<".","j","s","o","n">>

\* glob.glob(os.path.join(dir_path, "*" + stem + "*" + ext)): the files of
\* dir_path whose name holds stem somewhere before a final ext; a pattern
\* that starts with "*" matches no name that starts with a dot
GlobMatches(dir_path, stem, ext) ==
    {p \in DOMAIN fs :
        LET name == BaseName(p)
        IN  /\ DirName(p) = dir_path
            /\ name[1] # "."
            /\ EndsWith(name, ext)
            /\ \E i \in 1..(Len(name) - Len(ext) - Len(stem) + 1) :
                   SubSeq(name, i, i + Len(stem) - 1) = stem}

\* lines 189-193
Tier1(json_path) ==
    LET base_path == SplitExt(json_path)[1]
    IN  {base_path \o Lower(ext) : ext \in
            {e \in ALL_MEDIA_EXTENSIONS :
                Exists(base_path \o Lower(e)) \/ Exists(base_path \o Upper(e))}}

\* lines 195-201
Tier2(json_path, title) ==
    LET dir_path == DirName(json_path)
        title_without_ext == SplitExt(title)[1]
    IN  {p \in {Join(dir_path, title_without_ext \o ext) :
                    ext \in ALL_MEDIA_EXTENSIONS} : Exists(p)}

\* lines 203-207
Tier3(json_path, title) ==
    LET dir_path == DirName(json_path)
        title_without_ext == SplitExt(title)[1]
    IN  UNION {GlobMatches(dir_path, title_without_ext, ext) :
                   ext \in ALL_MEDIA_EXTENSIONS}

\* The paths find_media_file may return: a set iterates in no fixed order,
\* so any extension that hits may be the first.  The empty set stands for
\* the FileNotFoundError of line 209.
find_media_file(json_path, title) ==
    IF Tier1(json_path) # {} THEN Tier1(json_path)
    ELSE IF Tier2(json_path, title) # {} THEN Tier2(json_path, title)
    ELSE Tier3(json_path, title)

\* the directory part of get_target_path's result: year/year-month-day
DateDir(timestamp) ==
    LET date == FromTimestamp(timestamp, tz)
        year == Decimal(date.year)
        month == ZFill(Decimal(date.month), 2)
        day == ZFill(Decimal(date.day), 2)
    IN  Join(year, year \o <<"-">> \o month \o <<"-">> \o day)

get_target_path(timestamp, media_path) ==
    LET media_extension == Lower(SplitExt(media_path)[2])
        media_filename == SplitExt(BaseName(media_path))[1]
    IN  <<Join(DateDir(timestamp), media_filename \o media_extension),
          media_extension>>

-----------------------------------------------------------------------------
(* organize_media *)

\* organize_media() is started in the directory to organize:
\* abspath('.') and abspath('___organized_media')
SourceDir == <<"/","s">>

TargetDir == <<"/","s","/","o">>

should_process_directory(path, target_dir) ==
    LET norm_path == Lower(NormPath(path))
        norm_target == Lower(NormPath(target_dir))
    IN  ~StartsWith(norm_path, norm_target)

ZeroStats ==
    [processed |-> 0, processed_with_json |-> 0, processed_without_json |-> 0,
     errors |-> 0, photos |-> 0, videos |-> 0, skipped_directories |-> 0]

\* CountProcessed without the with/without-sidecar counter
CountProcessed_Mutant(st, how, media_ext) ==
    [st EXCEPT !.processed = @ + 1,
               !.photos = IF media_ext \in PHOTO_EXTENSIONS THEN @ + 1 ELSE @,
               !.videos = IF media_ext \in PHOTO_EXTENSIONS THEN @ ELSE @ + 1]

\* lines 296-301 and 328-333
CountProcessed(st, how, media_ext) ==
    [st EXCEPT !.processed = @ + 1,
               ![how] = @ + 1,
               !.photos = IF media_ext \in PHOTO_EXTENSIONS THEN @ + 1 ELSE @,
               !.videos = IF media_ext \in PHOTO_EXTENSIONS THEN @ ELSE @ + 1]

\* CountError with the failed file counted as processed too
CountError_Mutant(st) == [st EXCEPT !.errors = @ + 1, !.processed = @ + 1]

\* lines 305-306 and 337-338
CountError(st) == [st EXCEPT !.errors = @ + 1]

\* os.makedirs(path, exist_ok=True) below the target directory
RECURSIVE Ancestors(_)
Ancestors(path) ==
    IF Len(path) <= Len(TargetDir) THEN {TargetDir}
    ELSE {path} \cup Ancestors(DirName(path))

\* Move as a copy: the source stays
Move_Mutant(fsys, src, dst) ==
    [p \in DOMAIN fsys \cup {dst} |-> IF p = dst THEN fsys[src] ELSE fsys[p]]

\* shutil.move(src, dst) of an existing file to a file path: a rename, which
\* replaces a file that is already there
Move(fsys, src, dst) ==
    [p \in (DOMAIN fsys \ {src}) \cup {dst} |->
        IF p = dst THEN fsys[src] ELSE fsys[p]]

\* os.walk yields the directories below a directory in the listing's order,
\* which is the filesystem's
Orders(S) ==
    {o \in [1..Cardinality(S) -> S] :
        \A i, j \in 1..Cardinality(S) : i # j => o[i] # o[j]}

SubDirs(d) == {x \in dirs : x # d /\ DirName(x) = d}

FileNames(d) == {BaseName(p) : p \in {q \in DOMAIN fs : DirName(q) = d}}

NoCall == [fn |-> "none", metadata |-> NoDoc, path |-> <<>>, result |-> Raised]

NoLast ==
    [pass |-> 0, file |-> <<>>, media |-> None, outcome |-> "none",
     dest |-> <<>>]

NoHistory == [claimed |-> {}, attempted |-> {}]

Faults == {"none", "makedirs", "move_media", "move_json"}

\* what handling one file leaves behind
Outcome(fsys, ds, st, claimed, flt, lst, hist, cl) ==
    [fs |-> fsys, dirs |-> ds, stats |-> st, processed_media_files |-> claimed,
     faults |-> flt, last |-> lst, history |-> hist, call |-> cl]

\* lines 283-307 with process_json_file (238-250): the outcomes of handling
\* the sidecar json_path, one for each file find_media_file may return.
\* fault names the call the environment lets fail, if it is reached.
HandleJson(json_path, fault) ==
    LET metadata == fs[json_path].doc
        found == IF metadata.valid /\ metadata.title # None
                 THEN find_media_file(json_path, The(metadata.title))
                 ELSE {}
        Failed(outcome, media, claimed, made, fsys, hit, cl) ==
            Outcome(fsys, dirs \cup made, CountError(stats),
                    processed_media_files \cup claimed,
                    IF hit THEN faults + 1 ELSE faults,
                    [pass |-> 1, file |-> json_path, media |-> media,
                     outcome |-> outcome, dest |-> <<>>],
                    IF claimed = {} THEN history
                    ELSE [history EXCEPT !.claimed = @ \cup media],
                    cl)
        Found(media_path) ==
            LET res == get_valid_timestamp(metadata, media_path)
                plan == get_target_path(res.timestamp, media_path)
                full_target_dir == Join(TargetDir, DirName(plan[1]))
                media_dst == Join(TargetDir, plan[1])
                json_dst == Join(full_target_dir, BaseName(json_path))
                claimed == {Lower(media_path)}
                made == Ancestors(full_target_dir)
                cl == [fn |-> "get_valid_timestamp", metadata |-> metadata,
                       path |-> media_path, result |-> res]
            IN  IF res.raised
                THEN Failed("resolver_raised", Some(media_path), {}, {}, fs,
                            FALSE, cl)
                ELSE IF fault = "makedirs"
                THEN Failed("makedirs_failed", Some(media_path), claimed, {},
                            fs, TRUE, cl)
                ELSE IF ~Exists(media_path)
                THEN Failed("media_missing", Some(media_path), claimed, made,
                            fs, FALSE, cl)
                ELSE IF fault = "move_media"
                THEN Failed("move_media_failed", Some(media_path), claimed,
                            made, fs, TRUE, cl)
                ELSE IF fault = "move_json"
                THEN Failed("move_json_failed", Some(media_path), claimed,
                            made, Move(fs, media_path, media_dst), TRUE, cl)
                ELSE Outcome(
                        Move(Move(fs, media_path, media_dst),
                             json_path, json_dst),
                        dirs \cup made,
                        CountProcessed(stats, "processed_with_json", plan[2]),
                        processed_media_files \cup claimed,
                        faults,
                        [pass |-> 1, file |-> json_path,
                         media |-> Some(media_path), outcome |-> "moved",
                         dest |-> full_target_dir],
                        [history EXCEPT !.claimed = @ \cup {media_path}],
                        cl)
    IN  IF ~metadata.valid \/ metadata.title = None
        THEN {Failed("json_error", None, {}, {}, fs, FALSE, call)}
        ELSE IF found = {}
        THEN {Failed("not_found", None, {}, {}, fs, FALSE, call)}
        ELSE {Found(media_path) : media_path \in found}

\* lines 320-339 with process_media_without_json (229-236): the outcome of
\* handling the media file file_path
HandleMedia(file_path, fault) ==
    LET res == get_file_date(file_path)
        plan == get_target_path(res.timestamp, file_path)
        full_target_dir == Join(TargetDir, DirName(plan[1]))
        media_dst == Join(TargetDir, plan[1])
        made == Ancestors(full_target_dir)
        cl == [fn |-> "get_file_date", metadata |-> NoDoc,
               path |-> file_path, result |-> res]
        hist == [history EXCEPT !.attempted = @ \cup {file_path}]
        Failed(outcome, made_dirs, hit) ==
            Outcome(fs, dirs \cup made_dirs, CountError(stats),
                    processed_media_files,
                    IF hit THEN faults + 1 ELSE faults,
                    [pass |-> 2, file |-> file_path,
                     media |-> Some(file_path), outcome |-> outcome,
                     dest |-> <<>>],
                    hist, cl)
    IN  IF res.raised THEN Failed("resolver_raised", {}, FALSE)
        ELSE IF fault = "makedirs" THEN Failed("makedirs_failed", {}, TRUE)
        ELSE IF fault = "move_media"
        THEN Failed("move_media_failed", made, TRUE)
        ELSE Outcome(
                Move(fs, file_path, media_dst),
                dirs \cup made,
                CountProcessed(stats, "processed_without_json", plan[2]),
                processed_media_files,
                faults,
                [pass |-> 2, file |-> file_path, media |-> Some(file_path),
                 outcome |-> "moved", dest |-> full_target_dir],
                hist, cl)

\* lines 275-281 and 310-315: the walk yields its next directory
WalkNext ==
    /\ phase \in {"pass1", "pass2"}
    /\ files = {}
    /\ stack # <<>>
    /\ root' = Head(stack)
    /\ \E order \in Orders(SubDirs(Head(stack))) :
          stack' = order \o Tail(stack)
    /\ files' = IF should_process_directory(Head(stack), TargetDir)
                THEN FileNames(Head(stack))
                ELSE {}
    /\ stats' = IF ~should_process_directory(Head(stack), TargetDir)
                   /\ phase = "pass1"
                THEN [stats EXCEPT !.skipped_directories = @ + 1]
                ELSE stats
    /\ UNCHANGED <<fs, dirs, tz, processed_media_files, phase, run, faults,
                   prev, last, history, call>>

\* line 282: a file of the listing that is no sidecar
Pass1Skip(file) ==
    /\ phase = "pass1"
    /\ file \in files
    /\ ~EndsWith(file, DotJson)
    /\ files' = files \ {file}
    /\ UNCHANGED <<fs, dirs, tz, stats, processed_media_files, phase, stack,
                   root, run, faults, prev, last, history, call>>

\* lines 282-307: a sidecar of the listing
Pass1Json(file, fault) ==
    /\ phase = "pass1"
    /\ file \in files
    /\ EndsWith(file, DotJson)
    /\ fault # "none" => faults < MaxFaults
    /\ files' = files \ {file}
    /\ \E out \in HandleJson(Join(root, file), fault) :
          /\ fs' = out.fs
          /\ dirs' = out.dirs
          /\ stats' = out.stats
          /\ processed_media_files' = out.processed_media_files
          /\ faults' = out.faults
          /\ last' = out.last
          /\ history' = out.history
          /\ call' = out.call
    /\ UNCHANGED <<tz, phase, stack, root, run, prev>>

\* line 309: the first walk is exhausted, the second starts
EndPass1 ==
    /\ phase = "pass1"
    /\ files = {}
    /\ stack = <<>>
    /\ phase' = "pass2"
    /\ stack' = <<SourceDir>>
    /\ UNCHANGED <<fs, dirs, tz, stats, processed_media_files, root, files,
                   run, faults, prev, last, history, call>>

\* lines 316-319: a file that is claimed or is no media file
Pass2Skip(file) ==
    /\ phase = "pass2"
    /\ file \in files
    /\ \/ Lower(Join(root, file)) \in processed_media_files
       \/ Lower(SplitExt(file)[2]) \notin ALL_MEDIA_EXTENSIONS
    /\ files' = files \ {file}
    /\ UNCHANGED <<fs, dirs, tz, stats, processed_media_files, phase, stack,
                   root, run, faults, prev, last, history, call>>

\* lines 316-339: an unclaimed media file of the listing
Pass2Media(file, fault) ==
    /\ phase = "pass2"
    /\ file \in files
    /\ Lower(Join(root, file)) \notin processed_media_files
    /\ Lower(SplitExt(file)[2]) \in ALL_MEDIA_EXTENSIONS
    /\ fault \in {"none", "makedirs", "move_media"}
    /\ fault # "none" => faults < MaxFaults
    /\ files' = files \ {file}
    /\ \E out \in {HandleMedia(Join(root, file), fault)} :
          /\ fs' = out.fs
          /\ dirs' = out.dirs
          /\ stats' = out.stats
          /\ faults' = out.faults
          /\ last' = out.last
          /\ history' = out.history
          /\ call' = out.call
    /\ UNCHANGED <<tz, processed_media_files, phase, stack, root, run, prev>>

\* lines 341-348: the second walk is exhausted, the report is printed
Report ==
    /\ phase = "pass2"
    /\ files = {}
    /\ stack = <<>>
    /\ phase' = "done"
    /\ UNCHANGED <<fs, dirs, tz, stats, processed_media_files, stack, root,
                   files, run, faults, prev, last, history, call>>

\* lines 256-274: organize_media is started again on the same directories
StartRun ==
    /\ phase = "done"
    /\ run < MaxRuns
    /\ run' = run + 1
    /\ phase' = "pass1"
    /\ stats' = ZeroStats
    /\ processed_media_files' = {}
    /\ stack' = <<SourceDir>>
    /\ files' = {}
    /\ root' = SourceDir
    /\ prev' = [errors |-> stats.errors, faults |-> faults, fs |-> fs]
    /\ last' = NoLast
    /\ history' = NoHistory
    /\ UNCHANGED <<fs, dirs, tz, faults, call>>

Next ==
    \/ WalkNext
    \/ \E file \in files : Pass1Skip(file)
    \/ \E file \in files, fault \in Faults : Pass1Json(file, fault)
    \/ EndPass1
    \/ \E file \in files : Pass2Skip(file)
    \/ \E file \in files, fault \in Faults : Pass2Media(file, fault)
    \/ Report
    \/ StartRun

-----------------------------------------------------------------------------
(* The trees and inputs the model is run on *)

\* UTC and UTC+2
TzChoices == {0, 7200}

EmbeddedTime == 1500000000
PhotoTakenTime == 1700000000
CreationTime == 1650000000
CTime == 1600000000
\* 2019-05-05 12:00:00 UTC
MTime == 1557057600

Media(embedded, ctime, mtime) ==
    [embedded |-> embedded, ctime |-> ctime, mtime |-> mtime, doc |-> NoDoc]

Sidecar(doc) ==
    [embedded |-> <<>>, ctime |-> Some(CTime), mtime |-> MTime, doc |-> doc]

Doc(title, photoTaken, creation) ==
    [valid |-> TRUE, title |-> title, photoTaken |-> photoTaken,
     creation |-> creation]

At(dir, name) == Join(dir, name)

SiblingDir == <<"/","s","/","o","2">>

SubDir == <<"/","s","/","d">>

A_json == At(SourceDir, <<"a",".","j","s","o","n">>)
A_jpg == At(SourceDir, <<"a",".","j","p","g">>)
A_JPG == At(SourceDir, <<"a",".","J","P","G">>)
B_png == At(SourceDir, <<"b",".","p","n","g">>)
XB_mp4 == At(SourceDir, <<"x","b",".","m","p","4">>)
Sibling_mp4 == At(SiblingDir, <<"c",".","m","p","4">>)
Sub_mp4 == At(SubDir, <<"c",".","m","p","4">>)

Title_a == <<"a",".","j","p","g">>
Title_b == <<"b",".","j","p","g">>

Candidates ==
    { [path |-> A_json,
       rec |-> Sidecar(Doc(Some(Title_a), Some(Decimal(PhotoTakenTime)), None))],
      [path |-> A_json, rec |-> Sidecar(Doc(Some(Title_a), None, None))],
      [path |-> A_json,
       rec |-> Sidecar(Doc(Some(Title_b), Some(Decimal(PhotoTakenTime)), None))],
      [path |-> A_json, rec |-> Sidecar(Doc(None, None, None))],
      [path |-> A_json, rec |-> Sidecar(NoDoc)],
      [path |-> A_jpg, rec |-> Media(<<>>, Some(CTime), MTime)],
      [path |-> A_jpg, rec |-> Media(<<Some(EmbeddedTime)>>, Some(CTime), MTime)],
      [path |-> A_JPG, rec |-> Media(<<>>, Some(CTime), MTime)],
      [path |-> B_png, rec |-> Media(<<>>, Some(CTime), MTime)],
      [path |-> XB_mp4, rec |-> Media(<<>>, None, MTime)],
      [path |-> Sibling_mp4, rec |-> Media(<<>>, Some(CTime), MTime)],
      [path |-> Sub_mp4, rec |-> Media(<<>>, Some(CTime), MTime)] }

Tree(S) == [p \in {c.path : c \in S} |-> (CHOOSE c \in S : c.path = p).rec]

\* the state organize_media() starts in, on the tree `tree`
Started(tree, offsets) ==
    /\ fs = tree
    /\ dirs = {SourceDir} \cup {DirName(p) : p \in DOMAIN tree}
    /\ tz \in offsets
    /\ stats = ZeroStats
    /\ processed_media_files = {}
    /\ phase = "pass1"
    /\ stack = <<SourceDir>>
    /\ root = SourceDir
    /\ files = {}
    /\ run = 1
    /\ faults = 0
    /\ prev = [errors |-> 0, faults |-> 0, fs |-> tree]
    /\ last = NoLast
    /\ history = NoHistory
    /\ call = NoCall

Init ==
    \E S \in SUBSET Candidates :
        /\ Cardinality(S) <= MaxFiles
        /\ \A c1, c2 \in S : c1.path = c2.path => c1 = c2
        /\ Started(Tree(S), {0})

Spec == Init /\ [][Next]_vars

-----------------------------------------------------------------------------
(* The end-to-end scenario: IMG_001.jpg with its sidecar and a lone        *)
(* clip.mp4, neither with embedded metadata.  The scenario fixes the       *)
(* sidecar and the clip's modification date; the files' creation times     *)
(* and the timezone are the machine's.                                     *)

IMG_001_jpg == At(SourceDir, <<"I","M","G","_","0","0","1",".","j","p","g">>)
IMG_001_json == At(SourceDir, <<"I","M","G","_","0","0","1",".","j","s","o","n">>)
clip_mp4 == At(SourceDir, <<"c","l","i","p",".","m","p","4">>)

CTimeChoices == {None, Some(MIN_VALID_TIMESTAMP), Some(CTime)}

\* 2019-05-05 00:30:00 UTC and 2019-05-05 12:00:00 UTC
MTimeChoices == {1557016200, MTime}

Date_2019_05_05 == [year |-> 2019, month |-> 5, day |-> 5]

ScenarioInit ==
    \E ctime \in CTimeChoices, mtime \in MTimeChoices, offset \in TzChoices :
        /\ FromTimestamp(mtime, offset) = Date_2019_05_05
        /\ Started(
             (IMG_001_jpg :> Media(<<>>, ctime, mtime))
             @@ (IMG_001_json :> Sidecar(Doc(
                    Some(BaseName(IMG_001_jpg)),
                    Some(Decimal(PhotoTakenTime)), None)))
             @@ (clip_mp4 :> Media(<<>>, ctime, mtime)),
             {offset})

ScenarioSpec == ScenarioInit /\ [][Next]_vars

-----------------------------------------------------------------------------
(* The resolvers on their own: one file (or none), every combination of    *)
(* its dates and of the sidecar's fields, and one call.                    *)

Photo_path == A_jpg
Video_path == At(SourceDir, <<"a",".","m","p","4">>)
\* what find_media_file returns for an empty title beside a file ".jpg":
\* splitext gives it no extension
Hidden_path == At(SourceDir, <<".","j","p","g">>)

ResolverPaths == {Photo_path, Video_path, Hidden_path}

OptionTimes(valid) == {None, Some(0), Some(MIN_VALID_TIMESTAMP), Some(valid)}

EmbeddedChoices ==
    UNION {[1..n -> OptionTimes(EmbeddedTime)] : n \in 0..MaxTags}

FieldChoices(valid) ==
    {None, Some(<<"x">>), Some(Decimal(0)), Some(Decimal(MIN_VALID_TIMESTAMP)),
     Some(Decimal(valid))}

ResolverDocs ==
    {Doc(Some(Title_a), photoTaken, creation) :
        photoTaken \in FieldChoices(PhotoTakenTime),
        creation \in FieldChoices(CreationTime)}

ResolverInit ==
    /\ \/ fs = << >>
       \/ \E path \in ResolverPaths, embedded \in EmbeddedChoices,
             ctime \in OptionTimes(CTime),
             mtime \in {MIN_VALID_TIMESTAMP, MTime} :
              fs = (path :> Media(embedded, ctime, mtime))
    /\ dirs = {SourceDir}
    /\ tz = 0
    /\ stats = ZeroStats
    /\ processed_media_files = {}
    /\ phase = "resolver"
    /\ stack = <<>>
    /\ root = SourceDir
    /\ files = {}
    /\ run = 0
    /\ faults = 0
    /\ prev = [errors |-> 0, faults |-> 0, fs |-> << >>]
    /\ last = NoLast
    /\ history = NoHistory
    /\ call = NoCall

\* process_json_file, line 246
CallGetValidTimestamp(metadata, media_path) ==
    /\ phase = "resolver"
    /\ call = NoCall
    /\ call' = [fn |-> "get_valid_timestamp", metadata |-> metadata,
                path |-> media_path,
                result |-> get_valid_timestamp(metadata, media_path)]
    /\ UNCHANGED <<fs, dirs, tz, stats, processed_media_files, phase, stack,
                   root, files, run, faults, prev, last, history>>

\* process_media_without_json, line 233
CallGetFileDate(file_path) ==
    /\ phase = "resolver"
    /\ call = NoCall
    /\ call' = [fn |-> "get_file_date", metadata |-> NoDoc,
                path |-> file_path, result |-> get_file_date(file_path)]
    /\ UNCHANGED <<fs, dirs, tz, stats, processed_media_files, phase, stack,
                   root, files, run, faults, prev, last, history>>

ResolverNext ==
    \/ \E metadata \in ResolverDocs, path \in ResolverPaths :
           CallGetValidTimestamp(metadata, path)
    \/ \E path \in ResolverPaths : CallGetFileDate(path)

ResolverSpec == ResolverInit /\ [][ResolverNext]_vars

-----------------------------------------------------------------------------
(* The claims *)

Valid(candidate) ==
    candidate # None /\ The(candidate) > MIN_VALID_TIMESTAMP

JsonLabels == {"JSON photoTakenTime", "JSON creationTime"}

IsMediaPath(p) == Lower(SplitExt(p)[2]) \in ALL_MEDIA_EXTENSIONS

\* p lies in the target directory or below it
InTarget(p) == StartsWith(p, TargetDir \o <<"/">>)

TargetFiles(fsys) == {<<p, fsys[p]>> : p \in {q \in DOMAIN fsys : InTarget(q)}}

\* C1: a resolver's result that is not labelled "File modification time"
\* is above 946684800, whatever the candidates are: a candidate at or below
\* the threshold from the media file, the sidecar or the creation time is
\* passed over, and the resolver still returns for a file that exists; the
\* modification time is returned as it is.
C1_ThresholdFloor ==
    call.fn # "none" =>
        /\ Exists(call.path) => ~call.result.raised
        /\ ~call.result.raised =>
              /\ call.result.source # "File modification time"
                    => call.result.timestamp > MIN_VALID_TIMESTAMP
              /\ call.result.source = "File modification time"
                    => call.result.timestamp = fs[call.path].mtime

\* every source offers a date at the threshold and the modification time,
\* itself at the threshold, is what comes back
C1_Witness ==
    /\ call.fn = "get_valid_timestamp"
    /\ Exists(call.path)
    /\ fs[call.path].embedded = <<Some(MIN_VALID_TIMESTAMP)>>
    /\ call.metadata.photoTaken = Some(Decimal(MIN_VALID_TIMESTAMP))
    /\ call.metadata.creation = Some(Decimal(0))
    /\ fs[call.path].ctime = Some(MIN_VALID_TIMESTAMP)
    /\ call.result = Returned(MIN_VALID_TIMESTAMP, "File modification time")

\* the candidates of a file in the order of priority, with their labels
Chain(metadata, path, with_sidecar) ==
    LET ext == Lower(SplitExt(path)[2])
        media == IF ext \in PHOTO_EXTENSIONS
                 THEN <<<<get_exif_date(path), "EXIF">>>>
                 ELSE IF ext \in VIDEO_EXTENSIONS
                 THEN <<<<get_video_creation_time(path), "Video metadata">>>>
                 ELSE <<>>
        json == IF with_sidecar
                THEN << <<JsonField(metadata.photoTaken), "JSON photoTakenTime">>,
                        <<JsonField(metadata.creation), "JSON creationTime">> >>
                ELSE <<>>
    IN  media \o json \o << <<fs[path].ctime, "File creation time">> >>

FirstOfChain(chain, path) ==
    LET ok == {i \in 1..Len(chain) : Valid(chain[i][1])}
    IN  IF ok = {}
        THEN Returned(fs[path].mtime, "File modification time")
        ELSE LET i == CHOOSE k \in ok : \A j \in ok : k <= j
             IN  Returned(The(chain[i][1]), chain[i][2])

\* C2: for a file that exists a resolver returns the first valid candidate
\* of the chain media file, JSON photoTakenTime, JSON creationTime, creation
\* time, modification time, labelled with its source; get_file_date follows
\* the chain without the two JSON steps, gives what get_valid_timestamp
\* gives with a sidecar that has no timestamp fields, and never a JSON label.
C2_PriorityOrder ==
    (call.fn # "none" /\ Exists(call.path)) =>
        /\ call.fn = "get_valid_timestamp" =>
              call.result = FirstOfChain(
                  Chain(call.metadata, call.path, TRUE), call.path)
        /\ call.fn = "get_file_date" =>
              /\ call.result = FirstOfChain(
                     Chain(NoDoc, call.path, FALSE), call.path)
              /\ call.result = get_valid_timestamp(
                     Doc(Some(Title_a), None, None), call.path)
              /\ call.result.source \notin JsonLabels

\* the media file has no valid date, photoTakenTime is at the threshold,
\* creationTime is valid and wins over a valid creation time of the file
C2_Witness ==
    /\ call.fn = "get_valid_timestamp"
    /\ Exists(call.path)
    /\ call.path = Photo_path
    /\ fs[call.path].embedded = <<None, Some(0)>>
    /\ call.metadata.photoTaken = Some(Decimal(MIN_VALID_TIMESTAMP))
    /\ call.metadata.creation = Some(Decimal(CreationTime))
    /\ fs[call.path].ctime = Some(CTime)
    /\ call.result = Returned(CreationTime, "JSON creationTime")

Dir_2023_11_14 ==
    Join(TargetDir, <<"2","0","2","3","/","2","0","2","3","-","1","1","-","1","4">>)
Dir_2023_11_15 ==
    Join(TargetDir, <<"2","0","2","3","/","2","0","2","3","-","1","1","-","1","5">>)
Dir_2019_05_05 ==
    Join(TargetDir, <<"2","0","1","9","/","2","0","1","9","-","0","5","-","0","5">>)
\* the date of CTime, 2020-09-13 12:26:40 UTC
Dir_2020_09_13 ==
    Join(TargetDir, <<"2","0","2","0","/","2","0","2","0","-","0","9","-","1","3">>)

ScenarioRunEnded == phase = "done" /\ run = 1 /\ faults = 0

ScenarioStats ==
    /\ stats.processed = 2
    /\ stats.processed_with_json = 1
    /\ stats.processed_without_json = 1
    /\ stats.photos = 1
    /\ stats.videos = 1
    /\ stats.errors = 0

\* C3 as stated: after one run without I/O failures IMG_001.jpg and its
\* sidecar are in 2023/2023-11-14, clip.mp4 is in 2019/2019-05-05 by its
\* modification time, and the counters are 2, 1, 1, 1, 1, 0.
C3_Original ==
    ScenarioRunEnded =>
        /\ Exists(Join(Dir_2023_11_14, BaseName(IMG_001_jpg)))
        /\ Exists(Join(Dir_2023_11_14, BaseName(IMG_001_json)))
        /\ Exists(Join(Dir_2019_05_05, BaseName(clip_mp4)))
        /\ call.path = clip_mp4
        /\ call.result.source = "File modification time"
        /\ ScenarioStats

\* C3 as amended: the pair goes to the local date of 1700000000, which is
\* 2023-11-14 west of UTC+01:46:40 and 2023-11-15 from there on; clip.mp4
\* goes to 2019/2019-05-05 by its modification time only when its creation
\* time is unavailable or not above 946684800, and otherwise to the date
\* of its creation time, labelled "File creation time"; the counters are
\* 2, 1, 1, 1, 1, 0 in every case.
C3_Amended ==
    ScenarioRunEnded =>
        LET pair_dir == IF tz < 6400 THEN Dir_2023_11_14 ELSE Dir_2023_11_15
            ctime == prev.fs[clip_mp4].ctime
        IN  /\ Exists(Join(pair_dir, BaseName(IMG_001_jpg)))
            /\ Exists(Join(pair_dir, BaseName(IMG_001_json)))
            /\ call.path = clip_mp4
            /\ IF Valid(ctime)
               THEN /\ Exists(Join(Dir_2020_09_13, BaseName(clip_mp4)))
                    /\ call.result.source = "File creation time"
               ELSE /\ Exists(Join(Dir_2019_05_05, BaseName(clip_mp4)))
                    /\ call.result.source = "File modification time"
            /\ {p \in DOMAIN fs : ~InTarget(p)} = {}
            /\ ScenarioStats

\* the scenario as the spec tells it: no usable creation time, UTC
C3_Witness ==
    /\ ScenarioRunEnded
    /\ tz = 0
    /\ prev.fs[clip_mp4].ctime = None
    /\ Exists(Join(Dir_2023_11_14, BaseName(IMG_001_jpg)))
    /\ Exists(Join(Dir_2019_05_05, BaseName(clip_mp4)))
    /\ call.result = Returned(prev.fs[clip_mp4].mtime, "File modification time")

\* the files beside a sidecar named by its stem and a media extension in
\* lower or in upper case
StemFiles(json_path) ==
    LET base_path == SplitExt(json_path)[1]
    IN  {p \in DOMAIN fs :
            \E ext \in ALL_MEDIA_EXTENSIONS :
                p = base_path \o Lower(ext) \/ p = base_path \o Upper(ext)}

\* C4: for a sidecar the driver is about to handle, when a file named by
\* the sidecar's stem and a media extension in lower or upper case exists,
\* find_media_file returns such an existing file, whatever the title
\* matches; and it returns a title match only when there is no such file.
C4_Tier1ReturnsExistingFile ==
    \A file \in files :
        (phase = "pass1" /\ EndsWith(file, DotJson)
         /\ fs[Join(root, file)].doc.valid
         /\ fs[Join(root, file)].doc.title # None) =>
            LET json_path == Join(root, file)
                result == find_media_file(json_path,
                              The(fs[json_path].doc.title))
            IN  IF StemFiles(json_path) # {}
                THEN result # {} /\ result \subseteq StemFiles(json_path)
                ELSE result \subseteq
                         Tier2(json_path, The(fs[json_path].doc.title))
                         \cup Tier3(json_path, The(fs[json_path].doc.title))

\* a step in which the driver handled one file
Handled == last' # last /\ last'.pass \in {1, 2}

\* C5, the step: a file whose handling fails (it is still where it was)
\* adds one to errors and leaves the other counters alone, a file that is
\* moved leaves errors alone, and in both cases the driver is left in the
\* same pass with the file taken off the listing.
C5_Step ==
    Handled =>
        /\ IF last'.file \in DOMAIN fs'
           THEN stats' = [stats EXCEPT !.errors = @ + 1]
           ELSE stats'.errors = stats.errors
        /\ phase' = phase
        /\ files' = files \ {BaseName(last'.file)}

\* the directories the walk will still yield from a stack: those on it and
\* all below them
WillVisit(all_dirs, walk_stack) ==
    {x \in all_dirs : \E i \in 1..Len(walk_stack) :
        x = walk_stack[i] \/ StartsWith(x, walk_stack[i] \o <<"/">>)}

\* the files a pass will still iterate: the rest of the listing and the
\* files of the processable directories to come
PendingFiles(fsys, all_dirs, walk_stack, listing) ==
    Cardinality(listing)
    + Cardinality({p \in DOMAIN fsys :
          /\ DirName(p) \in WillVisit(all_dirs, walk_stack)
          /\ should_process_directory(DirName(p), TargetDir)})

\* what is left of a run, in lexicographic order: the passes, the files to
\* iterate, the directories to yield
Rank(pass, fsys, all_dirs, walk_stack, listing) ==
    (CASE pass = "pass1" -> 2 [] pass = "pass2" -> 1 [] OTHER -> 0) * 10000
    + PendingFiles(fsys, all_dirs, walk_stack, listing) * 100
    + Cardinality(WillVisit(all_dirs, walk_stack))

\* a step of a run brings the rank down
RankStep ==
    run' = run =>
        Rank(phase', fs', dirs', stack', files')
            < Rank(phase, fs, dirs, stack, files)

\* some step of the driver is possible: the walk yields a directory, a pass
\* ends, or a file of the listing is skipped or handled with an outcome
CanStep ==
    \/ files = {}
    \/ \E file \in files :
          IF phase = "pass1"
          THEN EndsWith(file, DotJson)
                  => HandleJson(Join(root, file), "none") # {}
          ELSE (/\ Lower(Join(root, file)) \notin processed_media_files
                /\ Lower(SplitExt(file)[2]) \in ALL_MEDIA_EXTENSIONS)
                  => HandleMedia(Join(root, file), "none").last.pass = 2

\* C5: every failure of one file is counted as one error and nothing else
\* and the driver goes on; and every run reaches its final report: before
\* the report a step is always possible, and every step of a run brings
\* the natural number Rank down.
C5_FailureIsolation ==
    /\ [][C5_Step /\ RankStep]_vars
    /\ [](phase \in {"pass1", "pass2"} => CanStep)

\* a run that saw a failure in each pass and reported
C5_Witness ==
    /\ phase = "done"
    /\ stats.errors = 2
    /\ stats.processed = 1
    /\ last.pass = 2
    /\ last.outcome = "move_media_failed"

\* C6 as stated: no file in the target tree is ever handled, matched or
\* timestamped, and a second run after a first run without errors
\* processes nothing and leaves the target tree as it was.
C6_TargetExclusion ==
    /\ last.pass # 0 =>
          /\ ~InTarget(last.file)
          /\ last.media # None => ~InTarget(The(last.media))
    /\ call.fn # "none" => ~InTarget(call.path)
    /\ (phase = "done" /\ run = 2 /\ prev.errors = 0) =>
          /\ stats.processed = 0
          /\ TargetFiles(fs) = TargetFiles(prev.fs)

\* C7 as stated: a resolver called by the driver returns a pair
C7_ResolverReturns == call.fn # "none" => ~call.result.raised

\* what a step of pass 1 did to the sidecar and to the media file it found
SidecarHandled == last' # last /\ last'.pass = 1 /\ last'.media # None

MediaWasMoved ==
    /\ The(last'.media) \in DOMAIN fs
    /\ The(last'.media) \notin DOMAIN fs'

SidecarWasMoved == last'.file \notin DOMAIN fs'

PairCounted ==
    /\ stats'.processed = stats.processed + 1
    /\ stats'.processed_with_json = stats.processed_with_json + 1

NothingCounted ==
    /\ stats'.processed = stats.processed
    /\ stats'.processed_with_json = stats.processed_with_json
    /\ stats'.photos = stats.photos
    /\ stats'.videos = stats.videos

\* both files are in one directory target/<year>/<year-month-day>
PairInDestination ==
    /\ DirName(DirName(last'.dest)) = TargetDir
    /\ Join(last'.dest, BaseName(last'.file)) \in DOMAIN fs'
    /\ \E p \in DOMAIN fs' :
          /\ DirName(p) = last'.dest
          /\ fs'[p] = fs[The(last'.media)]

C8_Step ==
    SidecarHandled =>
        \/ MediaWasMoved /\ SidecarWasMoved /\ PairCounted /\ PairInDestination
        \/ ~MediaWasMoved /\ ~SidecarWasMoved /\ NothingCounted

\* C8 as stated: after a sidecar is handled, either both files are in the
\* destination directory and counted, or neither was moved and nothing was
\* counted.
C8_Original == [][C8_Step]_vars

C8_AmendedStep ==
    SidecarHandled =>
        \/ MediaWasMoved /\ SidecarWasMoved /\ PairCounted /\ PairInDestination
        \/ ~MediaWasMoved /\ ~SidecarWasMoved /\ NothingCounted
        \/ /\ MediaWasMoved /\ ~SidecarWasMoved /\ NothingCounted
           /\ stats'.errors = stats.errors + 1
           /\ \E p \in DOMAIN fs' :
                 InTarget(p) /\ fs'[p] = fs[The(last'.media)]

\* C8 as amended: after a sidecar is handled, either both files are in the
\* destination directory and counted, or neither was moved and nothing was
\* counted, or the media file was moved to the target tree and the move of
\* the sidecar failed: then the sidecar is still at its source path,
\* nothing is counted as processed and one error is counted.  The sidecar
\* is never moved without its media file.
C8_Amended == [][C8_AmendedStep]_vars

\* the media file is in the target tree, its sidecar is left behind
C8_Witness ==
    /\ last.pass = 1
    /\ last.outcome = "move_json_failed"
    /\ Exists(last.file)
    /\ ~Exists(The(last.media))
    /\ stats.processed = 0
    /\ stats.errors = 1

\* C9 as stated: at the report every media file that was in the source
\* tree outside the target tree when the run started was attempted in pass
\* 2 if no sidecar claimed its path, and was not if one did.
C9_Pass2Complete ==
    phase = "done" =>
        \A p \in DOMAIN prev.fs :
            (IsMediaPath(p) /\ ~InTarget(p)) =>
                (p \in history.attempted <=> p \notin history.claimed)

C10_Inv ==
    /\ stats.processed
         = stats.processed_with_json + stats.processed_without_json
    /\ stats.processed = stats.photos + stats.videos

C10_Step ==
    run' = run =>
        /\ \A k \in DOMAIN stats : stats'[k] >= stats[k]
        /\ stats'.processed_with_json # stats.processed_with_json
              => phase = "pass1"
        /\ stats'.processed_without_json # stats.processed_without_json
              => phase = "pass2"

\* C10: in every state of a run processed is the sum of the with-sidecar
\* and without-sidecar counters and the sum of photos and videos; the
\* with-sidecar counter moves only in pass 1, the without-sidecar counter
\* only in pass 2, and within a run no counter goes down.
C10_StatsConsistent == []C10_Inv /\ [][C10_Step]_vars

\* a run that moved a photo with its sidecar and a video without one
C10_Witness ==
    /\ phase = "done"
    /\ stats.processed = 2
    /\ stats.processed_with_json = 1
    /\ stats.processed_without_json = 1
    /\ stats.photos = 1
    /\ stats.videos = 1

=============================================================================
